---------------------------- MODULE Spec2Model ----------------------------
(***************************************************************************)
(* Model of the portfolio API (src/src/Code.js, the last definitions of    *)
(* the file, lines 181-431): the GET handler doGet, the two capabilities   *)
(* getPortfolioItems and getDriveImages, and the parsing helpers.          *)
(*                                                                         *)
(* One request is handled run-to-completion.  What the spreadsheet and     *)
(* the Drive services answer during that request is the input of the       *)
(* handler; it is drawn in Init, and the action DoGet applies the handler  *)
(* to it.                                                                  *)
(*                                                                         *)
(* JavaScript strings are sequences of one-character strings, so that      *)
(* String(), toLowerCase(), trim() and split(',') are computed and not     *)
(* assumed.  The four non-ASCII link labels of LINK_KEYS are written in    *)
(* ASCII: KoushikiSite, Niconico, Melonbooks, Link.                        *)
(***************************************************************************)
EXTENDS Naturals, Sequences, FiniteSets, TLC

VARIABLES
    pc,         \* "request": a request is pending; "done": it was answered
    e,          \* the event object passed to doGet
    backend,    \* what the spreadsheet and Drive services hold for this request
    response,   \* the TextOutput doGet returned
    logged,     \* the lines written with Logger.log
    invoked,    \* the capabilities doGet called, in call order
    rangeReads, \* the number of getRange(...).getValues() calls
    blobReads,  \* the ids of the files whose bytes were read, in order
    cellReads,  \* the 0-based indices used in row[...] expressions
    retained,   \* the positions in values of the rows the filter kept
    arg,        \* the argument given to parseBoolean (helper specification)
    ret         \* what parseBoolean returned for it

vars == <<pc, e, backend, response, logged, invoked, rangeReads, blobReads,
          cellReads, retained, arg, ret>>

----------------------------------------------------------------------------
(* Bounds of the model.                                                    *)

\* the largest number of data rows of the sheet
MaxRows == 3
\* the largest number of files of the Drive folder
MaxFiles == 3
\* the largest number of whitespace characters around a parseBoolean input
MaxPad == 1

----------------------------------------------------------------------------
(* JavaScript values.  t is the type tag; s, n and b hold the value of a   *)
(* string, a number (or a date, as yyyymmdd in Asia/Tokyo) and a boolean.  *)

JsString(chars) == [t |-> "string", s |-> chars, n |-> 0, b |-> FALSE]
JsNumber(k) == [t |-> "number", s |-> <<>>, n |-> k, b |-> FALSE]
JsBoolean(v) == [t |-> "boolean", s |-> <<>>, n |-> 0, b |-> v]
JsDate(ymd) == [t |-> "date", s |-> <<>>, n |-> ymd, b |-> FALSE]
JsNull == [t |-> "null", s |-> <<>>, n |-> 0, b |-> FALSE]
JsUndefined == [t |-> "undefined", s |-> <<>>, n |-> 0, b |-> FALSE]
EmptyString == JsString(<<>>)

\* ToBoolean: the truthiness used by !v and v || w
Truthy(v) ==
    CASE v.t = "string" -> v.s # <<>>
      [] v.t = "number" -> v.n # 0
      [] v.t = "boolean" -> v.b
      [] v.t = "date" -> TRUE
      [] OTHER -> FALSE

\* v || w
JsOr(v, w) == IF Truthy(v) THEN v ELSE w

\* v === w, for the primitive values compared in the code
StrictEquals(v, w) ==
    /\ v.t = w.t
    /\ v.s = w.s
    /\ v.n = w.n
    /\ v.b = w.b

DigitChars == <<"0", "1", "2", "3", "4", "5", "6", "7", "8", "9">>

RECURSIVE NatToChars(_)
NatToChars(k) ==
    IF k < 10 THEN <<DigitChars[k + 1]>>
    ELSE NatToChars(k \div 10) \o <<DigitChars[(k % 10) + 1]>>

\* k written with at least w digits
RECURSIVE Padded(_, _)
Padded(k, w) ==
    IF w <= 1 THEN NatToChars(k)
    ELSE IF Len(NatToChars(k)) >= w THEN NatToChars(k)
    ELSE <<"0">> \o Padded(k, w - 1)

\* Utilities.formatDate(d, 'Asia/Tokyo', 'yyyy-MM-dd')
UtilitiesFormatDate(d) ==
    Padded(d.n \div 10000, 4) \o <<"-">> \o Padded((d.n \div 100) % 100, 2)
        \o <<"-">> \o Padded(d.n % 100, 2)

\* String(v).  Of a Date it is the long form of Date.prototype.toString;
\* the model keeps its shape: text that starts with a weekday, never empty.
JsToString(v) ==
    CASE v.t = "string" -> v.s
      [] v.t = "number" -> NatToChars(v.n)
      [] v.t = "boolean" ->
            IF v.b THEN <<"t", "r", "u", "e">> ELSE <<"f", "a", "l", "s", "e">>
      [] v.t = "date" -> <<"M", "o", "n", " ">> \o UtilitiesFormatDate(v)
      [] v.t = "null" -> <<"n", "u", "l", "l">>
      [] OTHER -> <<"u", "n", "d", "e", "f", "i", "n", "e", "d">>

UpperChars == <<"A", "B", "C", "D", "E", "F", "G", "H", "I", "J", "K", "L", "M",
                "N", "O", "P", "Q", "R", "S", "T", "U", "V", "W", "X", "Y", "Z">>
LowerChars == <<"a", "b", "c", "d", "e", "f", "g", "h", "i", "j", "k", "l", "m",
                "n", "o", "p", "q", "r", "s", "t", "u", "v", "w", "x", "y", "z">>

LowerChar(c) ==
    IF \E i \in DOMAIN UpperChars : UpperChars[i] = c
    THEN LowerChars[CHOOSE i \in DOMAIN UpperChars : UpperChars[i] = c]
    ELSE c

\* String.prototype.toLowerCase
ToLowerCase(chars) == [i \in DOMAIN chars |-> LowerChar(chars[i])]

WhiteSpace == {" ", "\t", "\n"}

RECURSIVE TrimStart(_)
TrimStart(chars) ==
    IF chars # <<>> /\ Head(chars) \in WhiteSpace THEN TrimStart(Tail(chars))
    ELSE chars

RECURSIVE TrimEnd(_)
TrimEnd(chars) ==
    IF chars # <<>> /\ chars[Len(chars)] \in WhiteSpace
    THEN TrimEnd(SubSeq(chars, 1, Len(chars) - 1))
    ELSE chars

\* String.prototype.trim
Trim(chars) == TrimEnd(TrimStart(chars))

\* String.prototype.split(','): the pieces between the commas, empty ones kept
RECURSIVE SplitComma(_, _)
SplitComma(chars, piece) ==
    IF chars = <<>> THEN <<piece>>
    ELSE IF Head(chars) = "," THEN <<piece>> \o SplitComma(Tail(chars), <<>>)
    ELSE SplitComma(Tail(chars), Append(piece, Head(chars)))

----------------------------------------------------------------------------
(* The parsing helpers.                                                    *)

\* .filter(tag => tag.length > 0)
RECURSIVE NonEmptyTags(_)
NonEmptyTags(tags) ==
    IF tags = <<>> THEN <<>>
    ELSE IF Len(Head(tags)) > 0 THEN <<Head(tags)>> \o NonEmptyTags(Tail(tags))
    ELSE NonEmptyTags(Tail(tags))

parseTags(tagsString) ==
    IF ~Truthy(tagsString) THEN <<>>
    ELSE LET pieces == SplitComma(JsToString(tagsString), <<>>)
             trimmed == [i \in DOMAIN pieces |-> Trim(pieces[i])]
         IN  NonEmptyTags(trimmed)

formatDate(dateValue) ==
    IF ~Truthy(dateValue) THEN <<>>
    ELSE IF dateValue.t = "date" THEN UtilitiesFormatDate(dateValue)
    ELSE JsToString(dateValue)

\* A parser that forgets to trim.
parseBooleanUntrimmed(value) ==
    IF value.t = "boolean" THEN value.b
    ELSE IF ~Truthy(value) THEN FALSE
    ELSE ToLowerCase(JsToString(value)) \in
            {<<"t", "r", "u", "e">>, <<"1">>, <<"y", "e", "s">>}

parseBoolean(value) ==
    IF value.t = "boolean" THEN value.b
    ELSE IF ~Truthy(value) THEN FALSE
    ELSE LET strValue == Trim(ToLowerCase(JsToString(value)))
         IN  \/ strValue = <<"t", "r", "u", "e">>
             \/ strValue = <<"1">>
             \/ strValue = <<"y", "e", "s">>

----------------------------------------------------------------------------
(* Script properties and the fixed column layout.                          *)

SHEET_NAME == "Portfolio"

COLUMN_COUNT == 13

COL ==
    [date |-> 1, title |-> 2, description |-> 3, imageUrl |-> 4, tags |-> 5,
     isCommision |-> 6, Amazon |-> 7, DLsite |-> 8, KoushikiSite |-> 9,
     Youtube |-> 10, Niconico |-> 11, Melonbooks |-> 12, Link |-> 13]

LINK_KEYS ==
    <<"Amazon", "DLsite", "KoushikiSite", "Youtube", "Niconico", "Melonbooks",
      "Link">>

imageMimeTypes ==
    <<"image/png", "image/jpeg", "image/gif", "image/webp", "image/svg+xml">>

\* Array.prototype.includes
Includes(seq, x) == \E i \in DOMAIN seq : seq[i] = x

----------------------------------------------------------------------------
(* The spreadsheet service.                                                *)

\* Sheet.getLastRow(): the position of the last row that has content; the
\* header is row 1 and the data rows follow it.
getLastRow(sheet) ==
    IF sheet.rows # <<>> THEN Len(sheet.rows) + 1
    ELSE IF sheet.header THEN 1 ELSE 0

\* sheet.getRange(row, column, numRows, numColumns).getValues(): the grid of
\* numRows x numColumns cells whose top left cell is (row, column); a cell the
\* sheet has no content for reads as ''.  Row 1 is the header, so the sheet
\* row r is sheet.rows[r - 1].
getValues(sheet, row, column, numRows, numColumns) ==
    [i \in 1..numRows |->
        [j \in 1..numColumns |->
            LET r == row + i - 2
                c == column + j - 1
            IN  IF r \in DOMAIN sheet.rows /\ c \in DOMAIN sheet.rows[r]
                THEN sheet.rows[r][c]
                ELSE EmptyString]]

\* row[i] of a JavaScript array: 0-based, undefined outside the array
Index(row, i) == IF (i + 1) \in DOMAIN row THEN row[i + 1] ELSE JsUndefined

----------------------------------------------------------------------------
(* getPortfolioItems.                                                      *)

\* row => row[COL.title] !== undefined && row[COL.title] !== ''
titleFilter(row) ==
    /\ ~StrictEquals(Index(row, COL.title), JsUndefined)
    /\ ~StrictEquals(Index(row, COL.title), EmptyString)

\* The positions in values of the rows the filter keeps, ascending.
RECURSIVE filterRows(_, _)
filterRows(values, from) ==
    IF from > Len(values) THEN <<>>
    ELSE IF titleFilter(values[from])
         THEN <<from>> \o filterRows(values, from + 1)
         ELSE filterRows(values, from + 1)

\* key => ({label: key, url: String(row[COL[key]] || '')})
linkOf(row, key) ==
    [label |-> key, url |-> JsToString(JsOr(Index(row, COL[key]), EmptyString))]

\* .filter(link => link.url)
RECURSIVE filterLinks(_)
filterLinks(links) ==
    IF links = <<>> THEN <<>>
    ELSE IF Head(links).url # <<>>
         THEN <<Head(links)>> \o filterLinks(Tail(links))
         ELSE filterLinks(Tail(links))

\* A reader that numbers the items by the place of their row in values.
itemIdByPosition(index, position) == position - 1

\* id: index
itemId(index, position) == index

\* (row, index) => ({id: index, date: ..., ..., isCommision: ...}); position
\* is the place of the row in values, which the code does not use.
mapRow(row, index, position) ==
    [id |-> itemId(index, position),
     date |-> formatDate(Index(row, COL.date)),
     title |-> JsToString(JsOr(Index(row, COL.title), EmptyString)),
     description |-> JsToString(JsOr(Index(row, COL.description), EmptyString)),
     imageUrl |-> JsToString(JsOr(Index(row, COL.imageUrl), EmptyString)),
     tags |-> parseTags(Index(row, COL.tags)),
     links |-> filterLinks([k \in DOMAIN LINK_KEYS |-> linkOf(row, LINK_KEYS[k])]),
     isCommision |-> parseBoolean(Index(row, COL.isCommision))]

\* The indices the filter uses on every row, and the map on every kept row.
filterIndices == {COL.title}
mapIndices ==
    {COL.date, COL.title, COL.description, COL.imageUrl, COL.tags,
     COL.isCommision} \cup {COL[LINK_KEYS[k]] : k \in DOMAIN LINK_KEYS}

Returned(value, reads, kept, cells) ==
    [threw |-> FALSE, error |-> <<>>, value |-> value, rangeReads |-> reads,
     retained |-> kept, cellReads |-> cells, blobReads |-> <<>>]

Thrown(error, reads, blobs) ==
    [threw |-> TRUE, error |-> error, value |-> <<>>, rangeReads |-> reads,
     retained |-> <<>>, cellReads |-> {}, blobReads |-> blobs]

\* A guard that lets a header-only sheet through to the range read.
isEmptySheetStrict(lastRow) == lastRow < 1

\* lastRow <= 1
isEmptySheet(lastRow) == lastRow <= 1

getPortfolioItems(b) ==
    IF ~b.spreadsheetFound
    THEN Thrown(<<"Exception: ", "Unexpected error while getting the method or property openById on object SpreadsheetApp.">>, 0, <<>>)
    ELSE IF ~b.sheetFound
    THEN Thrown(<<"Error: ", "Sheet \"", SHEET_NAME, "\" not found">>, 0, <<>>)
    ELSE LET lastRow == getLastRow(b.sheet) IN
         IF isEmptySheet(lastRow) THEN Returned(<<>>, 0, <<>>, {})
         ELSE IF ~b.rangeReadable
         THEN Thrown(<<"Exception: ", "Service Spreadsheets failed while accessing document.">>, 1, <<>>)
         ELSE LET values == getValues(b.sheet, 2, 1, lastRow - 1, COLUMN_COUNT)
                  kept == filterRows(values, 1)
                  items == [k \in DOMAIN kept |-> mapRow(values[kept[k]], k - 1, kept[k])]
              IN  Returned(items, 1, kept,
                           filterIndices \cup (IF kept = <<>> THEN {} ELSE mapIndices))

----------------------------------------------------------------------------
(* getDriveImages.                                                         *)

Base64Chars ==
    <<"A", "B", "C", "D", "E", "F", "G", "H", "I", "J", "K", "L", "M", "N", "O",
      "P", "Q", "R", "S", "T", "U", "V", "W", "X", "Y", "Z", "a", "b", "c", "d",
      "e", "f", "g", "h", "i", "j", "k", "l", "m", "n", "o", "p", "q", "r", "s",
      "t", "u", "v", "w", "x", "y", "z", "0", "1", "2", "3", "4", "5", "6", "7",
      "8", "9", "+", "/">>

\* Utilities.base64Encode(bytes)
RECURSIVE base64Encode(_)
base64Encode(bytes) ==
    IF bytes = <<>> THEN <<>>
    ELSE LET len == Len(bytes)
             b1 == bytes[1]
             b2 == IF len >= 2 THEN bytes[2] ELSE 0
             b3 == IF len >= 3 THEN bytes[3] ELSE 0
         IN  << Base64Chars[(b1 \div 4) + 1],
                Base64Chars[((b1 % 4) * 16 + (b2 \div 16)) + 1],
                IF len >= 2 THEN Base64Chars[((b2 % 16) * 4 + (b3 \div 64)) + 1]
                ELSE "=",
                IF len >= 3 THEN Base64Chars[(b3 % 64) + 1] ELSE "=" >>
             \o (IF len > 3 THEN base64Encode(SubSeq(bytes, 4, len)) ELSE <<>>)

\* A test that accepts every image/... type, such as image/bmp.
isImageFileByPrefix(file) ==
    Includes(imageMimeTypes \o <<"image/bmp">>, file.mimeType)

\* imageMimeTypes.includes(mimeType)
isImageFile(file) == Includes(imageMimeTypes, file.mimeType)

\* A loop that skips an image whose bytes cannot be read and carries on.
RECURSIVE collectImagesSkippingUnreadable(_, _, _)
collectImagesSkippingUnreadable(files, images, blobs) ==
    IF files = <<>>
    THEN [threw |-> FALSE, error |-> <<>>, value |-> images, rangeReads |-> 0,
          retained |-> <<>>, cellReads |-> {}, blobReads |-> blobs]
    ELSE LET file == Head(files) IN
         IF isImageFile(file) /\ file.readable
         THEN collectImagesSkippingUnreadable(Tail(files),
                  Append(images, [name |-> file.id, mimeType |-> file.mimeType,
                                  data |-> base64Encode(file.bytes)]),
                  Append(blobs, file.id))
         ELSE IF isImageFile(file)
         THEN collectImagesSkippingUnreadable(Tail(files), images,
                                              Append(blobs, file.id))
         ELSE collectImagesSkippingUnreadable(Tail(files), images, blobs)

\* while (files.hasNext()) { ... }: images and blobs are the array built and
\* the getBlob() calls made so far.  getBlob() throws for an unreadable file.
RECURSIVE collectImages(_, _, _)
collectImages(files, images, blobs) ==
    IF files = <<>>
    THEN [Returned(images, 0, <<>>, {}) EXCEPT !.blobReads = blobs]
    ELSE LET file == Head(files) IN
         IF isImageFile(file)
         THEN IF ~file.readable
              THEN Thrown(<<"Exception: ", "Service error: Drive">>, 0,
                          Append(blobs, file.id))
              ELSE collectImages(Tail(files),
                       Append(images, [name |-> file.id,
                                       mimeType |-> file.mimeType,
                                       data |-> base64Encode(file.bytes)]),
                       Append(blobs, file.id))
         ELSE collectImages(Tail(files), images, blobs)

getDriveImages(b) ==
    IF ~Truthy(b.DRIVE_FOLDER_ID)
    THEN Thrown(<<"Error: ", "DRIVE_FOLDER_ID is not set in script properties">>,
                0, <<>>)
    ELSE IF ~b.folderFound
    THEN Thrown(<<"Exception: ", "Unexpected error while getting the method or property getFolderById on object DriveApp.">>, 0, <<>>)
    ELSE collectImages(b.files, <<>>, <<>>)

----------------------------------------------------------------------------
(* doGet.                                                                  *)

\* The JSON document of a response body: an array, or the error object.
JsonArray(elems) ==
    [kind |-> "array", elems |-> elems, error |-> FALSE, message |-> <<>>,
     statusCode |-> 0]
JsonError(message, statusCode) ==
    [kind |-> "object", elems |-> <<>>, error |-> TRUE, message |-> message,
     statusCode |-> statusCode]
NoContent ==
    [kind |-> "none", elems |-> <<>>, error |-> FALSE, message |-> <<>>,
     statusCode |-> 0]

TextOutput(content) == [mimeType |-> "JSON", content |-> content]
NoResponse == [mimeType |-> "", content |-> NoContent]

createErrorResponse(message, statusCode) ==
    TextOutput(JsonError(message, IF statusCode # 0 THEN statusCode ELSE 500))

STR_items == <<"i", "t", "e", "m", "s">>
STR_images == <<"i", "m", "a", "g", "e", "s">>

\* (e && e.parameter && e.parameter.action) || 'items'
actionOf(ev) ==
    JsOr(IF ev.defined /\ ev.hasParameter THEN ev.action ELSE JsUndefined,
         JsString(STR_items))

\* A switch that compares the action without regard to case.
dispatchIgnoringCase(action) ==
    IF action.t = "string" /\ ToLowerCase(action.s) = <<"i", "m", "a", "g", "e", "s">>
    THEN "getDriveImages"
    ELSE "getPortfolioItems"

\* switch (action) { case 'images': ...; case 'items': default: ... }
dispatch(action) ==
    IF StrictEquals(action, JsString(STR_images)) THEN "getDriveImages"
    ELSE "getPortfolioItems"

\* What one call of doGet does: the TextOutput returned, the Logger lines,
\* the capability called and the reads it made.
doGet(ev, b) ==
    LET capability == dispatch(actionOf(ev))
        result == IF capability = "getDriveImages" THEN getDriveImages(b)
                  ELSE getPortfolioItems(b)
    IN  [response |->
             IF result.threw
             THEN createErrorResponse(<<"Internal server error: ">> \o result.error, 500)
             ELSE TextOutput(JsonArray(result.value)),
         logged |->
             IF result.threw THEN <<<<"Error in doGet: ">> \o result.error>>
             ELSE <<>>,
         invoked |-> <<capability>>,
         result |-> result]

----------------------------------------------------------------------------
(* The inputs of the model: requests, sheets and folder listings.          *)

Txt(chars) == JsString(chars)

\* doGet() without an event, an event without parameter, and events whose
\* parameter has no action, an empty one, 'items', 'images', or another one.
Requests ==
    {[defined |-> FALSE, hasParameter |-> FALSE, action |-> JsUndefined],
     [defined |-> TRUE, hasParameter |-> FALSE, action |-> JsUndefined]}
    \cup {[defined |-> TRUE, hasParameter |-> TRUE, action |-> a] :
            a \in {JsUndefined, EmptyString, Txt(STR_items), Txt(STR_images),
                   Txt(<<"I", "m", "a", "g", "e", "s">>),
                   Txt(<<"i", "m", "a", "g", "e">>)}}

\* Sheet rows, by spreadsheet column: date, title, description, imageUrl,
\* tags, isCommision, then the seven link columns in LINK_KEYS order.
BlankRow ==
    <<EmptyString, EmptyString, EmptyString, EmptyString, EmptyString,
      EmptyString, EmptyString, EmptyString, EmptyString, EmptyString,
      EmptyString, EmptyString, EmptyString>>

LinkUrl(k) == Txt(<<"u", DigitChars[k + 1]>>)

FullRow ==
    <<JsDate(20240131), Txt(<<"A", "b">>), Txt(<<"D", "e", "s", "c">>),
      Txt(<<"i", "m", "g">>), Txt(<<" ", "x", ",", " ", ",", "y">>),
      JsBoolean(TRUE), LinkUrl(1), LinkUrl(2), LinkUrl(3), LinkUrl(4),
      LinkUrl(5), LinkUrl(6), LinkUrl(7)>>

TitleOnlyRow == [BlankRow EXCEPT ![2] = Txt(<<"T">>)]

DescriptionOnlyRow == [BlankRow EXCEPT ![3] = Txt(<<"D">>)]

ZeroDescriptionRow ==
    [BlankRow EXCEPT ![2] = Txt(<<"T", "0">>), ![3] = JsNumber(0)]

FalseDescriptionRow ==
    [BlankRow EXCEPT ![2] = Txt(<<"T", "f">>), ![3] = JsBoolean(FALSE),
                     ![9] = LinkUrl(3)]

AmazonOnlyRow ==
    [BlankRow EXCEPT ![2] = Txt(<<"T", "a">>), ![3] = Txt(<<"D", "a">>),
                     ![7] = LinkUrl(1)]

\* a row of a sheet that has a 14th column
LastLinkRow ==
    [BlankRow EXCEPT ![2] = Txt(<<"T", "l">>), ![3] = Txt(<<"D", "l">>),
                     ![13] = LinkUrl(7)] \o <<Txt(<<"n", "o", "t", "e">>)>>

TwoLinksRow ==
    [BlankRow EXCEPT ![1] = Txt(<<"2", "0", "2", "4">>),
                     ![2] = Txt(<<"T", "2">>), ![3] = Txt(<<"D", "2">>),
                     ![5] = Txt(<<"a", ",", ",", "b">>),
                     ![6] = Txt(<<"Y", "e", "s", " ">>),
                     ![8] = LinkUrl(2), ![10] = LinkUrl(4)]

RowSamples ==
    {BlankRow, FullRow, TitleOnlyRow, DescriptionOnlyRow, ZeroDescriptionRow,
     FalseDescriptionRow, AmazonOnlyRow, LastLinkRow, TwoLinksRow}

SeqsUpTo(S, n) == UNION {[1..k -> S] : k \in 0..n}

\* The data rows of a sheet: getLastRow() is the last row with content, so
\* the last data row is not blank.
Grids ==
    {g \in SeqsUpTo(RowSamples, MaxRows) : g = <<>> \/ g[Len(g)] # BlankRow}

FileKinds ==
    {[mimeType |-> m, bytes |-> <<77, 97, 110>>, readable |-> TRUE] :
        m \in {"image/png", "image/jpeg", "image/gif", "image/webp"}}
    \cup {[mimeType |-> "image/svg+xml", bytes |-> <<77, 97>>, readable |-> TRUE],
          [mimeType |-> "image/png", bytes |-> <<77>>, readable |-> FALSE],
          [mimeType |-> "application/pdf", bytes |-> <<37, 80>>, readable |-> TRUE],
          [mimeType |-> "application/pdf", bytes |-> <<37>>, readable |-> FALSE],
          [mimeType |-> "image/bmp", bytes |-> <<66, 77>>, readable |-> TRUE]}

FileId(i) == <<"f">> \o NatToChars(i)

\* The files of the folder in listing order; the i-th file has the id f<i>.
Listings ==
    {[i \in DOMAIN kinds |->
        [id |-> FileId(i), mimeType |-> kinds[i].mimeType,
         bytes |-> kinds[i].bytes, readable |-> kinds[i].readable]] :
        kinds \in SeqsUpTo(FileKinds, MaxFiles)}

SheetStates ==
    {[spreadsheetFound |-> FALSE, sheetFound |-> FALSE, rangeReadable |-> FALSE,
      sheet |-> [header |-> FALSE, rows |-> <<>>]],
     [spreadsheetFound |-> TRUE, sheetFound |-> FALSE, rangeReadable |-> FALSE,
      sheet |-> [header |-> FALSE, rows |-> <<>>]]}
    \cup {[spreadsheetFound |-> TRUE, sheetFound |-> TRUE, rangeReadable |-> r,
           sheet |-> [header |-> h, rows |-> g]] :
            r \in BOOLEAN, h \in BOOLEAN, g \in Grids}

DriveStates ==
    {[DRIVE_FOLDER_ID |-> id, folderFound |-> FALSE, files |-> <<>>] :
        id \in {JsNull, EmptyString, Txt(<<"i", "d">>)}}
    \cup {[DRIVE_FOLDER_ID |-> Txt(<<"i", "d">>), folderFound |-> TRUE,
           files |-> l] : l \in Listings}

DefaultSheet ==
    [spreadsheetFound |-> TRUE, sheetFound |-> TRUE, rangeReadable |-> TRUE,
     sheet |-> [header |-> TRUE, rows |-> <<FullRow, TitleOnlyRow>>]]

DefaultDrive ==
    [DRIVE_FOLDER_ID |-> Txt(<<"i", "d">>), folderFound |-> TRUE,
     files |-> <<[id |-> FileId(1), mimeType |-> "image/png",
                  bytes |-> <<77, 97, 110>>, readable |-> TRUE],
                 [id |-> FileId(2), mimeType |-> "application/pdf",
                  bytes |-> <<37, 80>>, readable |-> FALSE]>>]

\* Every sheet with the default folder, and every folder with the default
\* sheet.
Backends ==
    {sh @@ DefaultDrive : sh \in SheetStates}
    \cup {DefaultSheet @@ dr : dr \in DriveStates}

Pads == SeqsUpTo({" ", "\t"}, MaxPad)

Words ==
    {<<>>, <<"t", "r", "u", "e">>, <<"T", "R", "U", "E">>, <<"T", "r", "u", "e">>,
     <<"1">>, <<"y", "e", "s">>, <<"Y", "E", "S">>, <<"Y", "e", "s">>,
     <<"n", "o">>, <<"f", "a", "l", "s", "e">>, <<"0">>, <<"2">>, <<"1", "0">>,
     <<"o", "n">>, <<"y">>, <<"t", "r", "u", "e", "e">>, <<"t", " ", "r", "u", "e">>,
     <<"y", "e", "s", ",", "1">>}

\* The arguments given to parseBoolean.
BooleanInputs ==
    {Txt(l \o w \o r) : l \in Pads, w \in Words, r \in Pads}
    \cup {JsBoolean(TRUE), JsBoolean(FALSE), JsNumber(0), JsNumber(1),
          JsNumber(2), JsNumber(10), JsNull, JsUndefined, JsDate(20240131)}

----------------------------------------------------------------------------
(* The specification of one request.                                       *)

Idle ==
    /\ response = NoResponse
    /\ logged = <<>>
    /\ invoked = <<>>
    /\ rangeReads = 0
    /\ blobReads = <<>>
    /\ cellReads = {}
    /\ retained = <<>>
    /\ ret = <<>>

Init ==
    /\ pc = "request"
    /\ e \in Requests
    /\ backend \in Backends
    /\ arg = JsUndefined
    /\ Idle

DoGet ==
    /\ pc = "request"
    /\ LET out == doGet(e, backend) IN
        /\ response' = out.response
        /\ logged' = out.logged
        /\ invoked' = out.invoked
        /\ rangeReads' = out.result.rangeReads
        /\ blobReads' = out.result.blobReads
        /\ cellReads' = out.result.cellReads
        /\ retained' = out.result.retained
    /\ pc' = "done"
    /\ UNCHANGED <<e, backend, arg, ret>>

Next == DoGet

Spec == Init /\ [][Next]_vars

----------------------------------------------------------------------------
(* The specification of parseBoolean alone.                                *)

InitParseBoolean ==
    /\ pc = "parse"
    /\ arg \in BooleanInputs
    /\ e = [defined |-> FALSE, hasParameter |-> FALSE, action |-> JsUndefined]
    /\ backend = DefaultSheet @@ DefaultDrive
    /\ Idle

ParseBoolean ==
    /\ pc = "parse"
    /\ ret' = <<parseBoolean(arg)>>
    /\ pc' = "parsed"
    /\ UNCHANGED <<e, backend, response, logged, invoked, rangeReads,
                   blobReads, cellReads, retained, arg>>

NextParseBoolean == ParseBoolean

SpecParseBoolean == InitParseBoolean /\ [][NextParseBoolean]_vars

----------------------------------------------------------------------------
(* Vocabulary of the properties.                                           *)

Answered == pc = "done"

ItemsCalled == Answered /\ invoked = <<"getPortfolioItems">>
ImagesCalled == Answered /\ invoked = <<"getDriveImages">>

IsArrayBody == response.content.kind = "array"
IsErrorBody == response.content.kind = "object"

\* getPortfolioItems returned normally, after reading the block
ItemsReturned == ItemsCalled /\ IsArrayBody /\ rangeReads = 1

Items == response.content.elems

SheetRows == backend.sheet.rows

\* the cell of data row i in the spreadsheet column at 1-based position c
SheetCell(i, c) ==
    IF c \in DOMAIN SheetRows[i] THEN SheetRows[i][c] ELSE EmptyString

\* the number of members of S below i
Rank(S, i) == Cardinality({j \in S : j < i})

----------------------------------------------------------------------------
----------------------------------------------------------------------------
(* C2 (code bug).  A data row is kept if and only if the cell of its title *)
(* column, the second column of the block, is neither undefined nor ''.    *)
C2_RetainedIffTitleCellNonEmpty ==
    ItemsReturned =>
        \A i \in DOMAIN SheetRows :
            (\E k \in DOMAIN retained : retained[k] = i)
                <=> (SheetCell(i, 2) # JsUndefined /\ SheetCell(i, 2) # EmptyString)

----------------------------------------------------------------------------
(* C3 (code bug).  The links of the item of a kept row are, in LINK_KEYS   *)
(* order, one {label, url} entry for each of the seven link columns        *)
(* (positions 7 to 13 of the block) whose cell is not empty, url being     *)
(* the string of that cell, and nothing else.                              *)
C3_LinksOfNonEmptyLinkColumns ==
    ItemsReturned =>
        \A k \in DOMAIN Items :
            LET i == retained[k]
                filled == {j \in DOMAIN LINK_KEYS : SheetCell(i, 6 + j) # EmptyString}
                links == Items[k].links
            IN  /\ Len(links) = Cardinality(filled)
                /\ \A j \in filled :
                     links[Rank(filled, j) + 1] =
                        [label |-> LINK_KEYS[j], url |-> JsToString(SheetCell(i, 6 + j))]

----------------------------------------------------------------------------
ItemsRaises ==
    \/ ~backend.spreadsheetFound
    \/ ~backend.sheetFound
    \/ (SheetRows # <<>> /\ ~backend.rangeReadable)

ImagesRaises ==
    \/ backend.DRIVE_FOLDER_ID \in {JsNull, EmptyString}
    \/ ~backend.folderFound
    \/ \E i \in DOMAIN backend.files :
          /\ backend.files[i].mimeType \in
                {"image/png", "image/jpeg", "image/gif", "image/webp", "image/svg+xml"}
          /\ ~backend.files[i].readable

(* C4 (confirmed).  doGet always returns a JSON TextOutput.  If computing  *)
(* the result raises (the spreadsheet or the sheet is not found, the range *)
(* read fails, the folder id is unset, the folder is not found, or an      *)
(* image file cannot be read) the body is {error: true, message,           *)
(* statusCode: 500} with a message that starts with 'Internal server       *)
(* error: ', and the error was logged; otherwise the body is the whole     *)
(* array: one item per kept row, or one record per image file.             *)
C4_ErrorEnvelopeOrFullResult ==
    Answered =>
        /\ response.mimeType = "JSON"
        /\ IsArrayBody \/ IsErrorBody
        /\ IsErrorBody <=>
              \/ (ItemsCalled /\ ItemsRaises)
              \/ (ImagesCalled /\ ImagesRaises)
        /\ IsErrorBody =>
              /\ response.content.error = TRUE
              /\ response.content.statusCode = 500
              /\ Len(response.content.message) > 1
              /\ response.content.message[1] = "Internal server error: "
              /\ response.content.elems = <<>>
              /\ Len(logged) = 1
              /\ logged[1][1] = "Error in doGet: "
        /\ IsArrayBody =>
              /\ logged = <<>>
              /\ ItemsCalled => Len(Items) = Len(retained)
              /\ ImagesCalled =>
                    Len(Items) = Cardinality({i \in DOMAIN backend.files :
                        backend.files[i].mimeType \in
                            {"image/png", "image/jpeg", "image/gif", "image/webp",
                             "image/svg+xml"}})

\* C4 witness: the second image of the folder could not be read after the
\* first one was collected, and the answer is the error envelope.
C4_Witness ==
    /\ ImagesCalled
    /\ Len(blobReads) = 2
    /\ IsErrorBody
    /\ response.content.elems = <<>>

----------------------------------------------------------------------------
IsImagesRequest ==
    /\ e.defined
    /\ e.hasParameter
    /\ e.action = JsString(<<"i", "m", "a", "g", "e", "s">>)

(* C5 (confirmed).  doGet calls exactly one capability: getDriveImages if  *)
(* and only if the action parameter is 'images', getPortfolioItems in      *)
(* every other case (the event or its parameter is missing, the action is  *)
(* absent, empty, 'items' or anything else); the capability not called     *)
(* reads nothing; and a request that is not for images is answered with    *)
(* the items whenever the sheet can be read, whatever its action.          *)
C5_ExactlyOneCapability ==
    Answered =>
        /\ Len(invoked) = 1
        /\ IsImagesRequest <=> invoked[1] = "getDriveImages"
        /\ ~IsImagesRequest <=> invoked[1] = "getPortfolioItems"
        /\ IsImagesRequest => rangeReads = 0 /\ cellReads = {}
        /\ ~IsImagesRequest => blobReads = <<>>
        /\ (~IsImagesRequest /\ ~ItemsRaises) => IsArrayBody

\* C5 witness: an unrecognized action ('Images') was answered with the
\* items of the sheet.
C5_Witness ==
    /\ Answered
    /\ e.action = JsString(<<"I", "m", "a", "g", "e", "s">>)
    /\ invoked = <<"getPortfolioItems">>
    /\ IsArrayBody
    /\ Len(Items) > 0

----------------------------------------------------------------------------
AllowedFiles ==
    {i \in DOMAIN backend.files :
        backend.files[i].mimeType \in
            {"image/png", "image/jpeg", "image/gif", "image/webp", "image/svg+xml"}}

(* C6 (confirmed).  When getDriveImages returns, its records are, in       *)
(* listing order, exactly the listed files whose MIME type is image/png,   *)
(* image/jpeg, image/gif, image/webp or image/svg+xml; and in every run    *)
(* the bytes of a file of another type are never read, so that such a      *)
(* file, readable or not, raises nothing.                                  *)
C6_ExactlyTheImageFiles ==
    ImagesCalled =>
        /\ \A k \in DOMAIN blobReads :
              \E i \in AllowedFiles : backend.files[i].id = blobReads[k]
        /\ (Truthy(backend.DRIVE_FOLDER_ID) /\ backend.folderFound
              /\ \A i \in AllowedFiles : backend.files[i].readable) => IsArrayBody
        /\ IsArrayBody =>
              /\ Len(Items) = Cardinality(AllowedFiles)
              /\ \A i \in AllowedFiles :
                    /\ Items[Rank(AllowedFiles, i) + 1].name = backend.files[i].id
                    /\ Items[Rank(AllowedFiles, i) + 1].mimeType =
                          backend.files[i].mimeType

\* C6 witness: a listing with an unreadable PDF, then an image/bmp file,
\* then a PNG was answered with the record of the PNG alone.
C6_Witness ==
    /\ ImagesCalled
    /\ IsArrayBody
    /\ Len(backend.files) = 3
    /\ backend.files[1].mimeType = "application/pdf"
    /\ ~backend.files[1].readable
    /\ backend.files[2].mimeType = "image/bmp"
    /\ Len(Items) = 1
    /\ Items[1].name = <<"f", "3">>

----------------------------------------------------------------------------
(* C7 (confirmed).  When the sheet exists and has no data row (its last    *)
(* row is 0 or 1), getPortfolioItems makes no range read and doGet         *)
(* answers the JSON array [], also when a range read would have failed.    *)
C7_EmptySheetAnswersEmptyArray ==
    (ItemsCalled /\ backend.spreadsheetFound /\ backend.sheetFound
        /\ SheetRows = <<>>) =>
            /\ rangeReads = 0
            /\ response = [mimeType |-> "JSON", content |-> JsonArray(<<>>)]
            /\ logged = <<>>

\* C7 witness: a header-only sheet whose range cannot be read was answered
\* with [].
C7_Witness ==
    /\ ItemsCalled
    /\ backend.sheetFound
    /\ backend.sheet.header
    /\ SheetRows = <<>>
    /\ ~backend.rangeReadable
    /\ IsArrayBody
    /\ Items = <<>>

----------------------------------------------------------------------------
(* C8 (code bug).  Every item getPortfolioItems returns has a title that   *)
(* is not the empty string.                                                *)
C8_TitlesNonEmpty ==
    ItemsReturned => \A k \in DOMAIN Items : Items[k].title # <<>>

----------------------------------------------------------------------------
(* C9 (confirmed).  parseBoolean returns a boolean argument unchanged,     *)
(* false for '', 0, null and undefined, and otherwise true exactly when    *)
(* the string of the argument, lowercased and trimmed, is 'true', '1' or   *)
(* 'yes'; so 'TRUE' and '1' give true, and 'no' gives false.               *)
C9_ParseBooleanTable ==
    pc = "parsed" =>
        /\ Len(ret) = 1
        /\ ret[1] \in BOOLEAN
        /\ arg.t = "boolean" => ret[1] = arg.b
        /\ arg \in {EmptyString, JsNumber(0), JsNull, JsUndefined} => ret[1] = FALSE
        /\ (arg.t # "boolean" /\ arg \notin {EmptyString, JsNumber(0), JsNull, JsUndefined})
              => (ret[1] <=> Trim(ToLowerCase(JsToString(arg))) \in
                                {<<"t", "r", "u", "e">>, <<"1">>, <<"y", "e", "s">>})
        /\ arg = JsString(<<"T", "R", "U", "E">>) => ret[1] = TRUE
        /\ arg = JsString(<<"1">>) => ret[1] = TRUE
        /\ arg = JsString(<<"n", "o">>) => ret[1] = FALSE
        /\ arg = JsNumber(1) => ret[1] = TRUE
        /\ arg = JsString(<<" ", "Y", "e", "s", "\t">>) => ret[1] = TRUE
        /\ arg = JsString(<<"t", " ", "r", "u", "e">>) => ret[1] = FALSE

\* C9 witness: ' Yes' followed by a tab was parsed as true.
C9_Witness ==
    /\ pc = "parsed"
    /\ arg = JsString(<<" ", "Y", "e", "s", "\t">>)
    /\ ret = <<TRUE>>

----------------------------------------------------------------------------
(* C10 (code bug).  Every index used to read a cell of a row lies inside   *)
(* the row of the block that was read: it is one of 0 .. COLUMN_COUNT - 1. *)
C10_ReadsInsideBlock ==
    Answered => \A i \in cellReads : i \in 0..(COLUMN_COUNT - 1)

=============================================================================
